---- MODULE Spec2Model ----
(***************************************************************************)
(* Model of the go-slackbot routing core: SimpleRouter, Route and its      *)
(* matchers (route.go), the Handler, Matcher and MessageType types, and    *)
(* the context accessors of context.go.                                    *)
(*                                                                         *)
(* Routers and Routes live on a heap: `routers` and `routes` are sequences *)
(* of records indexed by the object's address (1, 2, ...).  Router 1 is    *)
(* the SimpleRouter embedded in the Bot.  `refs` is the set of *Route      *)
(* pointers the caller of the package holds (the ones a builder returned), *)
(* `ret` is what the most recent call returned.                            *)
(***************************************************************************)
EXTENDS Naturals, Sequences, FiniteSets

VARIABLES routers, routes, refs, ret, calls, run

vars == <<routers, routes, refs, ret, calls, run>>

(* ---------------- bounds of the exploration ---------------- *)
MaxCalls == 4
MaxRoutes == 2
MaxRouters == 2
MaxSetup == 2

(* ---------------- values ---------------- *)
NilErr == "nil"
NilRe == "nil"
NoID == ""
BotID == "UBOT"
OtherID == "UHUMAN"

\* The ids the connected event can carry.
BotIDs == {BotID}

\* const ( DirectMessage MessageType = iota; DirectMention )
DirectMessage == 0
DirectMention == 1

\* Handler values: the nil func, a plain Handler, or the closure that
\* Route.MessageHandler builds around a MessageHandler.
NilHandler == [kind |-> "nil", fn |-> ""]
HandlerFuncs == {[kind |-> "Handler", fn |-> "hA"]}
MessageHandlerFuncs == {"mB"}

\* The patterns given to Hear: one that compiles and two that do not.
Patterns == {"^ping$", "[a", "a{2,1}"}

\* regexp.Compile: the compiled expression, or nil and an error.
Compile(regex) ==
  CASE regex = "[a"     -> [re |-> NilRe, err |-> "missing closing ]"]
    [] regex = "a{2,1}" -> [re |-> NilRe, err |-> "invalid repeat count"]
    [] OTHER        -> [re |-> regex, err |-> NilErr]

\* (*Regexp).MatchString for the compiled patterns of the model.
MatchString(re, text) ==
  CASE re = "^ping$" -> text = "ping"
    [] OTHER         -> FALSE

\* Message texts: an optional leading "<@user>" address and the rest.
Text(mention, body) == [mention |-> mention, body |-> body]

\* slack.MessageEvent: the author, the text and the channel id.
Event(user, text, channel) == [User |-> user, Text |-> text, Channel |-> channel]

\* The inbound events: "ping" written by the bot itself and by somebody
\* else in a shared channel, a direct mention of the bot, a direct message.
Events == {Event(BotID, Text(NoID, "ping"), "C1"),
           Event(OtherID, Text(NoID, "ping"), "C1"),
           Event(OtherID, Text(BotID, "pong"), "C1"),
           Event(OtherID, Text(NoID, "pong"), "D1")}

\* A context.Context: the message stored under message_context_key (if any)
\* and the values derived contexts added on the way.
\* context.Background(): no message stored.
NilCtx == [hasMsg |-> FALSE,
           msg |-> Event(NoID, Text(NoID, ""), ""),
           data |-> {}]

\* addMessageToContext(ctx, ev)
AddMessageToContext(ctx, ev) == [ctx EXCEPT !.hasMsg = TRUE, !.msg = ev]

Contexts == {AddMessageToContext(NilCtx, ev) : ev \in Events} \cup {NilCtx}

\* context.go: MessageFromContext returns the stored event or nil.
MessageFromContext(ctx) == [present |-> ctx.hasMsg, ev |-> ctx.msg]

\* StripDirectMention (not among the sources; after the specification) drops a leading "<@user>" address.
StripDirectMention(text) == text.body

\* IsDirectMessage (after the specification): the event came through a private channel.
IsDirectMessage(ev) == ev.Channel = "D1"

\* IsDirectMention (after the specification): the text begins with an address to userID.
IsDirectMention(ev, userID) == ev.Text.mention # NoID /\ ev.Text.mention = userID

(* ---------------- matchers ---------------- *)
\* &RegexpMatcher{regex: re}: botUserID is the zero value.
RegexpMatcher(re) ==
  [kind |-> "RegexpMatcher", regex |-> re, types |-> <<>>, name |-> "", botUserID |-> NoID]

\* &TypesMatcher{types: types, botUserID: id}
TypesMatcher(types, id) ==
  [kind |-> "TypesMatcher", regex |-> NilRe, types |-> types, name |-> "", botUserID |-> id]

\* A Matcher of the caller, handed to AddMatcher: it matches when the
\* Route's preprocessor left its value in the context, derives a context of
\* its own, and stores the id SetBotID gives it.
CustomMatcher(name) ==
  [kind |-> "Custom", regex |-> NilRe, types |-> <<>>, name |-> name, botUserID |-> NoID]

CustomMatchers == {CustomMatcher("needsA")}

TypeLists == {<<DirectMessage, DirectMention>>}

\* Matcher.SetBotID of the three implementations.
Matcher_SetBotID(m, botID) == [m EXCEPT !.botUserID = botID]

(* ---------------- Route: the record and its builders ---------------- *)
\* &Route{err: err, talkToSelf: selftalk}
NewRouteRec(err, selftalk) ==
  [handler |-> NilHandler, err |-> err, matchers |-> <<>>, subrouter |-> 0,
   preprocessor |-> "nil", botUserID |-> NoID, talkToSelf |-> selftalk]

\* &SimpleRouter{err: err}
NewRouterRec(err) ==
  [routes |-> <<>>, botUserID |-> NoID, err |-> err, talkToSelf |-> FALSE]

Route_setBotID(rt, botID) ==
  [rt EXCEPT !.botUserID = botID,
             !.matchers = [i \in DOMAIN rt.matchers |->
                             Matcher_SetBotID(rt.matchers[i], botID)]]

Route_TalkToSelf(rt) == [rt EXCEPT !.talkToSelf = TRUE]

Route_NoTalkToSelf(rt) == [rt EXCEPT !.talkToSelf = FALSE]

Route_AddMatcher(rt, m) == [rt EXCEPT !.matchers = Append(rt.matchers, m)]

\* addRegexpMatcher dropping the compile error.
addRegexpMatcher_errDropped(rt, regex) ==
  Route_AddMatcher(rt, RegexpMatcher(Compile(regex).re))

\* addRegexpMatcher setting the error instead of appending the matcher.
addRegexpMatcher_notAppended(rt, regex) ==
  LET c == Compile(regex) IN
  IF c.err # NilErr THEN [rt EXCEPT !.err = c.err]
  ELSE Route_AddMatcher(rt, RegexpMatcher(c.re))

addRegexpMatcher(rt, regex) ==
  LET c == Compile(regex)
      rt1 == IF c.err # NilErr THEN [rt EXCEPT !.err = c.err] ELSE rt
  IN  Route_AddMatcher(rt1, RegexpMatcher(c.re))

addTypesMatcher(rt, types) == Route_AddMatcher(rt, TypesMatcher(types, rt.botUserID))

Route_Hear(rt, regex) == addRegexpMatcher(rt, regex)

Route_Messages(rt, types) == addTypesMatcher(rt, types)

\* Route.Handler: the route after the call; the call returns Route_Err of
\* the route before it.
Route_Handler(rt, handler) ==
  IF rt.err # NilErr THEN rt ELSE [rt EXCEPT !.handler = handler]

Route_HandlerRet(rt) == IF rt.err # NilErr THEN rt.err ELSE NilErr

\* Route.MessageHandler wraps fn in a Handler closure and calls Route.Handler.
MessageHandlerClosure(fn) == [kind |-> "MessageHandler", fn |-> fn]

Route_MessageHandler(rt, fn) == Route_Handler(rt, MessageHandlerClosure(fn))

Route_Preprocess(rt, fn) == [rt EXCEPT !.preprocessor = fn]

Route_Err(rt) == rt.err

SimpleRouter_Err(rr) == rr.err

(* ---------------- matching ---------------- *)
\* The Preprocessors of the caller: pure context transforms.
Preprocessors == {"ppA"}

Preprocess(fn, ctx) == [ctx EXCEPT !.data = @ \cup {fn}]

\* RegexpMatcher.Match: msg.Text on a nil event and MatchString on a nil
\* expression are nil dereferences (a run-time panic).
RegexpMatcher_Match(m, ctx) ==
  LET msg == MessageFromContext(ctx) IN
  IF ~msg.present \/ m.regex = NilRe
    THEN [matched |-> FALSE, ctx |-> ctx, panic |-> TRUE]
    ELSE [matched |-> MatchString(m.regex, StripDirectMention(msg.ev.Text)),
          ctx |-> ctx, panic |-> FALSE]

\* TypesMatcher.Match: OR over the requested types, in order.
TypesMatcher_Match(m, ctx) ==
  LET msg == MessageFromContext(ctx)
      hit(t) == \/ t = DirectMessage /\ IsDirectMessage(msg.ev)
                \/ t = DirectMention /\ IsDirectMention(msg.ev, m.botUserID)
  IN  IF ~msg.present /\ Len(m.types) > 0
        THEN [matched |-> FALSE, ctx |-> ctx, panic |-> TRUE]
        ELSE [matched |-> \E i \in DOMAIN m.types : hit(m.types[i]),
              ctx |-> ctx, panic |-> FALSE]

\* The caller's matcher: looks for the preprocessor's value and derives a
\* context that records it ran.
CustomMatcher_Match(m, ctx) ==
  [matched |-> "ppA" \in ctx.data, ctx |-> [ctx EXCEPT !.data = @ \cup {m.name}],
   panic |-> FALSE]

\* Matcher.Match, dispatched on the dynamic type.
Matcher_Match(m, ctx) ==
  CASE m.kind = "RegexpMatcher" -> RegexpMatcher_Match(m, ctx)
    [] m.kind = "TypesMatcher"  -> TypesMatcher_Match(m, ctx)
    [] OTHER                    -> CustomMatcher_Match(m, ctx)

\* var match RouteMatch: the zero value.
EmptyMatch == [Route |-> 0, Handler |-> NilHandler]

\* What a Match call works on besides the context: the RouteMatch it was
\* handed and the log of what it did (Routes entered; for each Route the
\* preprocessor, index 0, and the matchers, index 1.., it ran; the Routes
\* that wrote the RouteMatch).
EmptyWork == [match |-> EmptyMatch, visited |-> <<>>, evaluated |-> <<>>, writes |-> <<>>]

Result(matched, ctx, w, panic) ==
  [matched |-> matched, ctx |-> ctx, match |-> w.match, visited |-> w.visited,
   evaluated |-> w.evaluated, writes |-> w.writes, panic |-> panic]

WorkOf(res) ==
  [match |-> res.match, visited |-> res.visited, evaluated |-> res.evaluated,
   writes |-> res.writes]

RECURSIVE Route_Match(_, _, _)
RECURSIVE SimpleRouter_Match(_, _, _)
RECURSIVE matchMatchers(_, _, _, _)
RECURSIVE matchRoutes(_, _, _, _)
RECURSIVE matchRoutes_lastWins(_, _, _, _)

\* hasBuildError with the check left out.
hasBuildError_skipped(rt) == FALSE

\* Route.Match, first check: if r.err != nil { return false, ctx }
hasBuildError(rt) == rt.err # NilErr

\* isSelfTalk with the talkToSelf flag forgotten.
isSelfTalk_flagIgnored(rt, ctx) ==
  LET ev == MessageFromContext(ctx) IN
  ev.present /\ rt.botUserID = ev.ev.User

\* Route.Match, third check: the event exists, the Route does not talk to
\* itself and the author is the Route's bot id.
isSelfTalk(rt, ctx) ==
  LET ev == MessageFromContext(ctx) IN
  ev.present /\ ~rt.talkToSelf /\ rt.botUserID = ev.ev.User

\* match.Route = r; match.Handler = r.handler
fill(r, w) ==
  [w EXCEPT !.match = [Route |-> r, Handler |-> routes[r].handler],
            !.writes = Append(@, r)]

\* finish falling back on the Route's own handler when the subrouter
\* reports no match.
finish_ownHandlerFallback(r, ctx, w) ==
  LET rt == routes[r]
      own == Result(TRUE, ctx, fill(r, w), FALSE)
      sub == SimpleRouter_Match(rt.subrouter, ctx, w)
  IN  IF rt.subrouter # 0 /\ sub.matched THEN sub ELSE own

\* finish writing the RouteMatch before it looks at the subrouter.
finish_writeThenDelegate(r, ctx, w) ==
  LET rt == routes[r] IN
  IF rt.subrouter # 0
    THEN SimpleRouter_Match(rt.subrouter, ctx, fill(r, w))
    ELSE Result(TRUE, ctx, fill(r, w), FALSE)

\* Route.Match, after the matchers: delegate to the subrouter if there is
\* one, else fill the RouteMatch with this Route and its handler.
finish(r, ctx, w) ==
  LET rt == routes[r] IN
  IF rt.subrouter # 0
    THEN SimpleRouter_Match(rt.subrouter, ctx, w)
    ELSE Result(TRUE, ctx, fill(r, w), FALSE)

\* matchMatchers going on to the next matcher after one that did not match.
matchMatchers_failureIgnored(r, i, ctx, w) ==
  LET rt == routes[r] IN
  IF i > Len(rt.matchers)
    THEN finish(r, ctx, w)
    ELSE LET m == Matcher_Match(rt.matchers[i], ctx)
             w1 == [w EXCEPT !.evaluated = Append(@, <<r, i>>)]
         IN  IF m.panic THEN Result(FALSE, m.ctx, w1, TRUE)
             ELSE matchMatchers(r, i + 1, m.ctx, w1)

\* Route.Match, the loop over r.matchers from index i on.
matchMatchers(r, i, ctx, w) ==
  LET rt == routes[r] IN
  IF i > Len(rt.matchers)
    THEN finish(r, ctx, w)
    ELSE LET m == Matcher_Match(rt.matchers[i], ctx)
             w1 == [w EXCEPT !.evaluated = Append(@, <<r, i>>)]
         IN  IF m.panic THEN Result(FALSE, m.ctx, w1, TRUE)
             ELSE IF ~m.matched THEN Result(FALSE, m.ctx, w1, FALSE)
             ELSE matchMatchers(r, i + 1, m.ctx, w1)

\* Route.Match running the preprocessor before the self-talk check.
Route_Match_preprocessFirst(r, ctx, w) ==
  LET rt == routes[r]
      w1 == [w EXCEPT !.visited = Append(@, r)]
      pre == rt.preprocessor # "nil"
      ctx1 == IF pre THEN Preprocess(rt.preprocessor, ctx) ELSE ctx
      w2 == IF pre THEN [w1 EXCEPT !.evaluated = Append(@, <<r, 0>>)] ELSE w1
  IN  IF hasBuildError(rt) THEN Result(FALSE, ctx, w1, FALSE)
      ELSE IF rt.handler = NilHandler THEN Result(FALSE, ctx, w1, FALSE)
      ELSE IF isSelfTalk(rt, ctx1) THEN Result(FALSE, ctx1, w2, FALSE)
      ELSE matchMatchers(r, 1, ctx1, w2)

Route_Match(r, ctx, w) ==
  LET rt == routes[r]
      w1 == [w EXCEPT !.visited = Append(@, r)]
  IN  IF hasBuildError(rt) THEN Result(FALSE, ctx, w1, FALSE)
      ELSE IF rt.handler = NilHandler THEN Result(FALSE, ctx, w1, FALSE)
      ELSE IF isSelfTalk(rt, ctx) THEN Result(FALSE, ctx, w1, FALSE)
      ELSE IF rt.preprocessor # "nil"
        THEN matchMatchers(r, 1, Preprocess(rt.preprocessor, ctx),
                           [w1 EXCEPT !.evaluated = Append(@, <<r, 0>>)])
        ELSE matchMatchers(r, 1, ctx, w1)

\* matchRoutes preferring the Route registered last.
matchRoutes_lastWins(R, i, ctx, w) ==
  IF i > Len(routers[R].routes)
    THEN Result(FALSE, ctx, w, FALSE)
    ELSE LET later == matchRoutes_lastWins(R, i + 1, ctx, w) IN
         IF later.panic \/ later.matched THEN later
         ELSE Route_Match(routers[R].routes[i], ctx, WorkOf(later))

\* matchRoutes handing the context a Route returned to the next Route and to
\* the caller.
matchRoutes_ctxThreaded(R, i, ctx, w) ==
  IF i > Len(routers[R].routes)
    THEN Result(FALSE, ctx, w, FALSE)
    ELSE LET res == Route_Match(routers[R].routes[i], ctx, w) IN
         IF res.panic \/ res.matched THEN res
         ELSE matchRoutes(R, i + 1, res.ctx, WorkOf(res))

\* SimpleRouter.Match, the loop over r.routes from index i on.  The ctx a
\* Route returns is bound to the loop body's own ctx: the next Route and the
\* final return see the ctx Match was called with.
matchRoutes(R, i, ctx, w) ==
  IF i > Len(routers[R].routes)
    THEN Result(FALSE, ctx, w, FALSE)
    ELSE LET res == Route_Match(routers[R].routes[i], ctx, w) IN
         IF res.panic \/ res.matched THEN res
         ELSE matchRoutes(R, i + 1, ctx, WorkOf(res))

SimpleRouter_Match(R, ctx, w) ==
  IF routers[R].err # NilErr
    THEN Result(FALSE, ctx, w, FALSE)
    ELSE matchRoutes(R, 1, ctx, w)

(* ---------------- the heap and the calls ---------------- *)
Routers == 1 .. Len(routers)

\* What a call returned: the call, its receiver (a Router or a Route) and
\* argument, and the *Route, error or Match result it gave back.
NoRet == [op |-> "New", router |-> 0, route |-> 0, err |-> NilErr, arg |-> "",
          ctx |-> NilCtx, res |-> Result(FALSE, NilCtx, EmptyWork, FALSE)]

\* Bot.Run and the goroutine it starts.  pc: where Run is ("idle" before the
\* call, "auth" in the authentication loop, "returned"); err: what Run
\* returned; loop: where the dispatch goroutine is ("none" before it is
\* started, "select", "handler" inside match.Handler, "exited"); quit: quitCh
\* is closed; msg: the type of the event received last; botUserID: the Bot's
\* field; setBotIDCalls: the calls of Bot.setBotID; ignored: the
\* authentication loop dropped a message event; handler: the handler running.
NotRunning ==
  [pc |-> "idle", err |-> "none", loop |-> "none", quit |-> FALSE, msg |-> "none",
   botUserID |-> NoID, setBotIDCalls |-> 0, ignored |-> FALSE, handler |-> NilHandler]

\* New(): a Bot whose embedded SimpleRouter is the zero value.
Init ==
  /\ routers = <<NewRouterRec(NilErr)>>
  /\ routes = <<>>
  /\ refs = {}
  /\ ret = NoRet
  /\ calls = 0
  /\ run = NotRunning

CanCall == calls < MaxCalls

\* newRoute leaving talkToSelf at its zero value.
newRoute_flagDropped(R, selftalk) == NewRouteRec(routers[R].err, FALSE)

\* SimpleRouter.newRoute: the Route it builds, with the Router's error and
\* the flag it was given.
newRoute(R, selftalk) == NewRouteRec(routers[R].err, selftalk)

\* The rest of newRoute and the builder that called it: the Route is
\* appended to R's routes (and to the heap) and the call returns.

Register(R, rt, op, returned, err, arg) ==
  /\ CanCall
  /\ Len(routes) < MaxRoutes
  /\ routes' = Append(routes, rt)
  /\ routers' = [routers EXCEPT ![R].routes = Append(@, Len(routes) + 1)]
  /\ refs' = IF returned THEN refs \cup {Len(routes) + 1} ELSE refs
  /\ ret' = [NoRet EXCEPT !.op = op, !.router = R, !.route = Len(routes) + 1,
                          !.err = err, !.arg = arg]
  /\ calls' = calls + 1
  /\ UNCHANGED run

SimpleRouter_Hear(R, regex) ==
  Register(R, Route_Hear(newRoute(R, routers[R].talkToSelf), regex),
           "SimpleRouter.Hear", TRUE, NilErr, regex)

SimpleRouter_Handler(R, handler) ==
  LET rt == newRoute(R, routers[R].talkToSelf) IN
  Register(R, Route_Handler(rt, handler), "SimpleRouter.Handler", FALSE,
           Route_HandlerRet(rt), handler.fn)

SimpleRouter_MessageHandler(R, fn) ==
  LET rt == newRoute(R, routers[R].talkToSelf) IN
  Register(R, Route_MessageHandler(rt, fn), "SimpleRouter.MessageHandler", FALSE,
           Route_HandlerRet(rt), fn)

SimpleRouter_Messages(R, types) ==
  Register(R, Route_Messages(newRoute(R, routers[R].talkToSelf), types),
           "SimpleRouter.Messages", TRUE, NilErr, "")

SimpleRouter_AddMatcher(R, m) ==
  Register(R, Route_AddMatcher(newRoute(R, routers[R].talkToSelf), m),
           "SimpleRouter.AddMatcher", TRUE, NilErr, m.name)

SimpleRouter_TalkToSelf(R) ==
  Register(R, newRoute(R, TRUE), "SimpleRouter.TalkToSelf", TRUE, NilErr, "")

SimpleRouter_NoTalkToSelf(R) ==
  Register(R, newRoute(R, FALSE), "SimpleRouter.NoTalkToSelf", TRUE, NilErr, "")

SimpleRouter_AlwaysTalkToSelf(R) ==
  /\ CanCall
  /\ routers' = [routers EXCEPT ![R].talkToSelf = TRUE]
  /\ ret' = [NoRet EXCEPT !.op = "SimpleRouter.AlwaysTalkToSelf", !.router = R]
  /\ calls' = calls + 1
  /\ UNCHANGED <<routes, refs, run>>

SimpleRouter_NeverTalkToSelf(R) ==
  /\ CanCall
  /\ routers' = [routers EXCEPT ![R].talkToSelf = FALSE]
  /\ ret' = [NoRet EXCEPT !.op = "SimpleRouter.NeverTalkToSelf", !.router = R]
  /\ calls' = calls + 1
  /\ UNCHANGED <<routes, refs, run>>

\* SimpleRouter.SetBotID: the Router's own field, then Route.setBotID on each
\* of its routes.
SetBotID(R, botID) ==
  LET mine == {routers[R].routes[i] : i \in DOMAIN routers[R].routes} IN
  [r \in DOMAIN routes |-> IF r \in mine THEN Route_setBotID(routes[r], botID) ELSE routes[r]]

SimpleRouter_SetBotID(R, botID) ==
  /\ CanCall
  /\ routers' = [routers EXCEPT ![R].botUserID = botID]
  /\ routes' = SetBotID(R, botID)
  /\ ret' = [NoRet EXCEPT !.op = "SimpleRouter.SetBotID", !.router = R, !.arg = botID]
  /\ calls' = calls + 1
  /\ UNCHANGED <<refs, run>>

\* A builder call on a Route the caller holds: the Route becomes rt.
Update(r, rt, op, err, arg) ==
  /\ CanCall
  /\ routes' = [routes EXCEPT ![r] = rt]
  /\ ret' = [NoRet EXCEPT !.op = op, !.route = r, !.err = err, !.arg = arg]
  /\ calls' = calls + 1
  /\ UNCHANGED <<routers, refs, run>>

RouteHear(r, regex) == Update(r, Route_Hear(routes[r], regex), "Route.Hear", NilErr, regex)

RouteMessages(r, types) ==
  Update(r, Route_Messages(routes[r], types), "Route.Messages", NilErr, "")

RouteAddMatcher(r, m) ==
  Update(r, Route_AddMatcher(routes[r], m), "Route.AddMatcher", NilErr, m.name)

RouteHandler(r, handler) ==
  Update(r, Route_Handler(routes[r], handler), "Route.Handler",
         Route_HandlerRet(routes[r]), handler.fn)

RouteMessageHandler(r, fn) ==
  Update(r, Route_MessageHandler(routes[r], fn), "Route.MessageHandler",
         Route_HandlerRet(routes[r]), fn)

RoutePreprocess(r, fn) ==
  Update(r, Route_Preprocess(routes[r], fn), "Route.Preprocess", NilErr, fn)

RouteTalkToSelf(r) == Update(r, Route_TalkToSelf(routes[r]), "Route.TalkToSelf", NilErr, "")

RouteNoTalkToSelf(r) ==
  Update(r, Route_NoTalkToSelf(routes[r]), "Route.NoTalkToSelf", NilErr, "")

\* Route.Subrouter: a fresh SimpleRouter that copies the Route's error
\* replaces whatever subrouter the Route had, and is returned.
Subrouter(r) ==
  /\ CanCall
  /\ Len(routers) < MaxRouters
  /\ routers' = Append(routers, NewRouterRec(routes[r].err))
  /\ routes' = [routes EXCEPT ![r].subrouter = Len(routers) + 1]
  /\ ret' = [NoRet EXCEPT !.op = "Route.Subrouter", !.route = r, !.router = Len(routers) + 1]
  /\ calls' = calls + 1
  /\ UNCHANGED <<refs, run>>

\* Router.Match handed a context and a fresh RouteMatch, as Bot.Run does.
RouterMatch(R, ctx) ==
  /\ ret' = [NoRet EXCEPT !.op = "SimpleRouter.Match", !.router = R, !.ctx = ctx,
                          !.res = SimpleRouter_Match(R, ctx, EmptyWork)]
  /\ UNCHANGED <<routers, routes, refs, calls, run>>

Next ==
  \/ \E R \in Routers, regex \in Patterns : SimpleRouter_Hear(R, regex)
  \/ \E R \in Routers, h \in HandlerFuncs : SimpleRouter_Handler(R, h)
  \/ \E R \in Routers, fn \in MessageHandlerFuncs : SimpleRouter_MessageHandler(R, fn)
  \/ \E R \in Routers, types \in TypeLists : SimpleRouter_Messages(R, types)
  \/ \E R \in Routers, m \in CustomMatchers : SimpleRouter_AddMatcher(R, m)
  \/ \E R \in Routers : SimpleRouter_TalkToSelf(R)
  \/ \E R \in Routers : SimpleRouter_NoTalkToSelf(R)
  \/ \E R \in Routers : SimpleRouter_AlwaysTalkToSelf(R)
  \/ \E R \in Routers : SimpleRouter_NeverTalkToSelf(R)
  \/ \E R \in Routers, botID \in BotIDs : SimpleRouter_SetBotID(R, botID)
  \/ \E R \in Routers, ctx \in Contexts : RouterMatch(R, ctx)
  \/ \E r \in refs, regex \in Patterns : RouteHear(r, regex)
  \/ \E r \in refs, types \in TypeLists : RouteMessages(r, types)
  \/ \E r \in refs, m \in CustomMatchers : RouteAddMatcher(r, m)
  \/ \E r \in refs, h \in HandlerFuncs : RouteHandler(r, h)
  \/ \E r \in refs, fn \in MessageHandlerFuncs : RouteMessageHandler(r, fn)
  \/ \E r \in refs, fn \in Preprocessors : RoutePreprocess(r, fn)
  \/ \E r \in refs : RouteTalkToSelf(r)
  \/ \E r \in refs : RouteNoTalkToSelf(r)
  \/ \E r \in refs : Subrouter(r)

Spec == Init /\ [][Next]_vars

(* ======================= Bot.Run ======================= *)
\* What arrives on RTM.IncomingEvents: the type of msg.Data, the user id a
\* ConnectedEvent carries and the MessageEvent itself.
RTMEvent(type, id, ev) == [type |-> type, id |-> id, ev |-> ev]

NoEvent == Event(NoID, Text(NoID, ""), "")

MessageEvents == {RTMEvent("MessageEvent", NoID, ev) : ev \in Events}

RTMEvents ==
  MessageEvents \cup
  {RTMEvent("ConnectedEvent", id, NoEvent) : id \in BotIDs} \cup
  {RTMEvent("InvalidAuthEvent", NoID, NoEvent),
   RTMEvent("RTMError", NoID, NoEvent),
   RTMEvent("HelloEvent", NoID, NoEvent)}

\* The setup code of the program, before it calls Run.
Setup == run.pc = "idle" /\ calls < MaxSetup

\* b.RTM = b.Client.NewRTM(); go b.RTM.ManageConnection(); Run enters the
\* authentication loop.
Run ==
  /\ run.pc = "idle"
  /\ run' = [run EXCEPT !.pc = "auth"]
  /\ UNCHANGED <<routers, routes, refs, ret, calls>>

\* The owner of quitCh closes it.
CloseQuit ==
  /\ run.pc # "idle"
  /\ ~run.quit
  /\ run' = [run EXCEPT !.quit = TRUE]
  /\ UNCHANGED <<routers, routes, refs, ret, calls>>

\* authSwitch taking a message event for the connected event.
authSwitch_messageConnects(e) ==
  IF e.type \in {"ConnectedEvent", "MessageEvent"} THEN "ConnectedEvent"
  ELSE IF e.type = "InvalidAuthEvent" THEN "InvalidAuthEvent"
  ELSE "default"

\* authSwitch ignoring the invalid-auth event like any other event.
authSwitch_invalidAuthIgnored(e) ==
  IF e.type = "ConnectedEvent" THEN "ConnectedEvent" ELSE "default"

\* The type switch of the authentication loop: the case it takes.
authSwitch(e) ==
  IF e.type = "ConnectedEvent" THEN "ConnectedEvent"
  ELSE IF e.type = "InvalidAuthEvent" THEN "InvalidAuthEvent"
  ELSE "default"

\* The authentication loop receives e.  ConnectedEvent: Bot.setBotID, break
\* auth, the dispatch goroutine is started and Run returns nil.
\* InvalidAuthEvent: Run returns an error.  Anything else is ignored.
AuthEvent(e) ==
  /\ run.pc = "auth"
  /\ CASE authSwitch(e) = "ConnectedEvent" ->
            /\ run' = [run EXCEPT !.pc = "returned", !.err = NilErr, !.loop = "select",
                                  !.msg = e.type, !.botUserID = e.id,
                                  !.setBotIDCalls = @ + 1]
            /\ routers' = [routers EXCEPT ![1].botUserID = e.id]
            /\ routes' = SetBotID(1, e.id)
       [] authSwitch(e) = "InvalidAuthEvent" ->
            /\ run' = [run EXCEPT !.pc = "returned", !.err = "authentication failed",
                                  !.msg = e.type]
            /\ UNCHANGED <<routers, routes>>
       [] OTHER ->
            /\ run' = [run EXCEPT !.msg = e.type,
                                  !.ignored = @ \/ e.type = "MessageEvent"]
            /\ UNCHANGED <<routers, routes>>
  /\ UNCHANGED <<refs, ret, calls>>

\* The authentication loop takes the quitCh case: Run returns an error.
AuthQuit ==
  /\ run.pc = "auth"
  /\ run.quit
  /\ run' = [run EXCEPT !.pc = "returned",
                        !.err = "quit event received during authentication"]
  /\ UNCHANGED <<routers, routes, refs, ret, calls>>

\* The type switch of the dispatch goroutine: the case it takes.
dispatchSwitch(e) ==
  IF e.type = "MessageEvent" THEN "MessageEvent"
  ELSE IF e.type = "RTMError" THEN "RTMError"
  ELSE "default"

\* The dispatch goroutine receives e.  A MessageEvent is stored in a fresh
\* context and handed to b.Match with a zero RouteMatch; on a match with a
\* non-nil handler the goroutine calls match.Handler(ctx) itself.  An
\* RTMError is logged, anything else ignored.
DispatchEvent(e) ==
  /\ run.loop = "select"
  /\ IF dispatchSwitch(e) = "MessageEvent"
       THEN LET ctx == AddMessageToContext(NilCtx, e.ev)
                res == SimpleRouter_Match(1, ctx, EmptyWork)
            IN  /\ ret' = [NoRet EXCEPT !.op = "SimpleRouter.Match", !.router = 1,
                                        !.ctx = ctx, !.res = res]
                /\ run' = IF res.panic
                            THEN [run EXCEPT !.msg = e.type, !.loop = "panicked"]
                          ELSE IF res.matched /\ res.match.Handler # NilHandler
                            THEN [run EXCEPT !.msg = e.type, !.loop = "handler",
                                             !.handler = res.match.Handler]
                          ELSE [run EXCEPT !.msg = e.type]
       ELSE /\ run' = [run EXCEPT !.msg = e.type]
            /\ UNCHANGED ret
  /\ UNCHANGED <<routers, routes, refs, calls>>

\* match.Handler(ctx) returns: the goroutine is back at its select.
HandlerReturn ==
  /\ run.loop = "handler"
  /\ run' = [run EXCEPT !.loop = "select", !.handler = NilHandler]
  /\ UNCHANGED <<routers, routes, refs, ret, calls>>

\* The dispatch goroutine takes the quitCh case and returns.
DispatchQuit ==
  /\ run.loop = "select"
  /\ run.quit
  /\ run' = [run EXCEPT !.loop = "exited"]
  /\ UNCHANGED <<routers, routes, refs, ret, calls>>

NextRun ==
  \/ \E R \in Routers, regex \in Patterns : Setup /\ SimpleRouter_Hear(R, regex)
  \/ \E R \in Routers, h \in HandlerFuncs : Setup /\ SimpleRouter_Handler(R, h)
  \/ \E R \in Routers, fn \in MessageHandlerFuncs : Setup /\ SimpleRouter_MessageHandler(R, fn)
  \/ \E R \in Routers, types \in TypeLists : Setup /\ SimpleRouter_Messages(R, types)
  \/ \E R \in Routers, m \in CustomMatchers : Setup /\ SimpleRouter_AddMatcher(R, m)
  \/ \E R \in Routers : Setup /\ SimpleRouter_TalkToSelf(R)
  \/ \E R \in Routers : Setup /\ SimpleRouter_NoTalkToSelf(R)
  \/ \E R \in Routers : Setup /\ SimpleRouter_AlwaysTalkToSelf(R)
  \/ \E R \in Routers : Setup /\ SimpleRouter_NeverTalkToSelf(R)
  \/ \E r \in refs, regex \in Patterns : Setup /\ RouteHear(r, regex)
  \/ \E r \in refs, types \in TypeLists : Setup /\ RouteMessages(r, types)
  \/ \E r \in refs, m \in CustomMatchers : Setup /\ RouteAddMatcher(r, m)
  \/ \E r \in refs, h \in HandlerFuncs : Setup /\ RouteHandler(r, h)
  \/ \E r \in refs, fn \in MessageHandlerFuncs : Setup /\ RouteMessageHandler(r, fn)
  \/ \E r \in refs, fn \in Preprocessors : Setup /\ RoutePreprocess(r, fn)
  \/ \E r \in refs : Setup /\ RouteTalkToSelf(r)
  \/ \E r \in refs : Setup /\ RouteNoTalkToSelf(r)
  \/ \E r \in refs : Setup /\ Subrouter(r)
  \/ Run
  \/ CloseQuit
  \/ \E e \in RTMEvents : AuthEvent(e)
  \/ AuthQuit
  \/ \E e \in RTMEvents : DispatchEvent(e)
  \/ HandlerReturn
  \/ DispatchQuit

\* The program from its setup code through Bot.Run.
SpecRun == Init /\ [][NextRun]_vars

\* SpecRun with the progress the runtime gives: a select whose quitCh case
\* is ready again and again takes it at some point (Go picks among the ready
\* cases at random), and a handler that was called returns.
SpecRunFair ==
  /\ SpecRun
  /\ WF_vars(AuthQuit)
  /\ SF_vars(DispatchQuit)
  /\ WF_vars(HandlerReturn)

(* ======================= properties ======================= *)
\* Match with a fresh RouteMatch, as a caller sees it.
RouterResult(R, ctx) == SimpleRouter_Match(R, ctx, EmptyWork)

RouteResult(r, ctx) == Route_Match(r, ctx, EmptyWork)

RoutesOf(R) == routers[R].routes

RouteSet(R) == {RoutesOf(R)[i] : i \in DOMAIN RoutesOf(R)}

InSeq(x, seq) == \E i \in DOMAIN seq : seq[i] = x

\* The Routes registered in R or in a subrouter below it.
RECURSIVE Subtree(_)
Subtree(R) ==
  RouteSet(R) \cup
    UNION {Subtree(routes[r].subrouter) : r \in {x \in RouteSet(R) : routes[x].subrouter # 0}}

\* The Route's own preprocessor and matchers, one after the other, on ctx:
\* whether all matchers matched, and the context they left.
RECURSIVE ownFrom(_, _, _)
ownFrom(r, i, ctx) ==
  IF i > Len(routes[r].matchers) THEN [ok |-> TRUE, ctx |-> ctx]
  ELSE LET m == Matcher_Match(routes[r].matchers[i], ctx) IN
       IF m.panic \/ ~m.matched THEN [ok |-> FALSE, ctx |-> m.ctx]
       ELSE ownFrom(r, i + 1, m.ctx)

OwnMatchers(r, ctx) ==
  ownFrom(r, 1, IF routes[r].preprocessor # "nil"
                  THEN Preprocess(routes[r].preprocessor, ctx) ELSE ctx)

\* Everything but the self-talk filter lets the Route match ctx.
WouldMatch(r, ctx) ==
  /\ routes[r].err = NilErr
  /\ routes[r].handler # NilHandler
  /\ OwnMatchers(r, ctx).ok
  /\ routes[r].subrouter # 0 =>
       RouterResult(routes[r].subrouter, OwnMatchers(r, ctx).ctx).matched

IsMatchCall == ret.op = "SimpleRouter.Match"

\* C1 as stated: when Router.Match returns true, the RouteMatch names the
\* earliest-registered Route of the Router whose own Match succeeds on the
\* event, and no Route registered after it was evaluated.
C1_NamesEarliestRoute ==
  (IsMatchCall /\ ret.res.matched) =>
    \E i \in DOMAIN RoutesOf(ret.router) :
      /\ RouteResult(RoutesOf(ret.router)[i], ret.ctx).matched
      /\ \A j \in 1 .. (i - 1) : ~RouteResult(RoutesOf(ret.router)[j], ret.ctx).matched
      /\ ret.res.match.Route = RoutesOf(ret.router)[i]
      /\ \A j \in (i + 1) .. Len(RoutesOf(ret.router)) :
           ~InSeq(RoutesOf(ret.router)[j], ret.res.visited)

\* C1 amended: when Router.Match returns true, the RouteMatch and the context
\* are the ones the earliest-registered Route whose own Match succeeds
\* produced: the RouteMatch names that Route, or, when that Route has a
\* subrouter, a Route nested below it; no Route registered after it was
\* evaluated.
C1_FirstMatchWins ==
  (IsMatchCall /\ ret.res.matched) =>
    \E i \in DOMAIN RoutesOf(ret.router) :
      LET r == RoutesOf(ret.router)[i]
          own == RouteResult(r, ret.ctx)
      IN  /\ own.matched
          /\ \A j \in 1 .. (i - 1) : ~RouteResult(RoutesOf(ret.router)[j], ret.ctx).matched
          /\ ret.res.match = own.match
          /\ ret.res.ctx = own.ctx
          /\ IF routes[r].subrouter = 0
               THEN ret.res.match.Route = r
               ELSE ret.res.match.Route \in Subtree(routes[r].subrouter)
          /\ \A j \in (i + 1) .. Len(RoutesOf(ret.router)) :
               ~InSeq(RoutesOf(ret.router)[j], ret.res.visited)

\* Two Routes of one Router both match the event and the first was selected.
C1_Witness ==
  /\ IsMatchCall /\ ret.res.matched
  /\ Len(RoutesOf(ret.router)) >= 2
  /\ RouteResult(RoutesOf(ret.router)[1], ret.ctx).matched
  /\ RouteResult(RoutesOf(ret.router)[2], ret.ctx).matched
  /\ ret.res.match.Route = RoutesOf(ret.router)[1]

\* C2: whenever a Route with a subrouter S reports a match, its own matchers
\* all passed, S.Match reported a match on the context they left, and the
\* RouteMatch is the one S filled: a Route below S with that Route's handler,
\* never the outer Route.
C2_SubrouterDelegation ==
  \A r \in DOMAIN routes : routes[r].subrouter # 0 =>
    \A ctx \in Contexts :
      LET res == RouteResult(r, ctx)
          own == OwnMatchers(r, ctx)
          sub == RouterResult(routes[r].subrouter, own.ctx)
      IN  res.matched =>
            /\ own.ok
            /\ sub.matched
            /\ res.match = sub.match
            /\ res.match.Route # r
            /\ res.match.Route \in Subtree(routes[r].subrouter)
            /\ res.match.Handler = routes[res.match.Route].handler

\* A Match call went through a Route with a matcher and a subrouter and ended
\* in a nested Route.
C2_Witness ==
  /\ IsMatchCall /\ ret.res.matched
  /\ \E r \in DOMAIN routes :
       /\ InSeq(r, ret.res.visited)
       /\ routes[r].subrouter # 0
       /\ Len(routes[r].matchers) > 0
       /\ ret.res.match.Route \in RouteSet(routes[r].subrouter)

\* What "holds id as its bot identity" means for a Route and its matchers.
HoldsID(r, id) ==
  /\ routes[r].botUserID = id
  /\ \A i \in DOMAIN routes[r].matchers : routes[r].matchers[i].botUserID = id

\* C3: after SetBotID(id) on a Router, every Route registered on it or in a
\* subrouter at any depth, and every Matcher of those Routes, holds id.
C3_SetBotIDWholeTree ==
  ret.op = "SimpleRouter.SetBotID" =>
    \A r \in Subtree(ret.router) : HoldsID(r, ret.arg)

\* C4: a Route registered on a Router and given the id by SetBotID never
\* matches an event written by id while self-talk is off, whatever its
\* handler and matchers; with self-talk on it matches that event exactly when
\* the rest of the Route does.
C4_SelfTalkExclusion ==
  \A R \in Routers : \A r \in RouteSet(R) :
    routes[r].botUserID # NoID =>
      \A ev \in Events : ev.User = routes[r].botUserID =>
        LET ctx == AddMessageToContext(NilCtx, ev) IN
        IF routes[r].talkToSelf
          THEN RouteResult(r, ctx).matched = WouldMatch(r, ctx)
          ELSE ~RouteResult(r, ctx).matched

\* The bot's own "ping" reached a Route that holds the bot id, has a handler
\* and matchers that pass, and has self-talk off: no match.
C4_Witness ==
  /\ IsMatchCall /\ ~ret.res.matched /\ ret.ctx.hasMsg
  /\ ret.ctx.msg.User = BotID
  /\ \E r \in RouteSet(ret.router) :
       /\ InSeq(r, ret.res.visited)
       /\ routes[r].botUserID = BotID
       /\ ~routes[r].talkToSelf
       /\ Len(routes[r].matchers) > 0
       /\ WouldMatch(r, ret.ctx)

IsInvalidHear == ret.op = "SimpleRouter.Hear" /\ Compile(ret.arg).err # NilErr

\* C5 as stated: after Router.Hear(p) with a pattern that does not compile,
\* the Router's Err() is that error and Router.Match matches no event.
C5_RouterDisabled ==
  IsInvalidHear =>
    /\ SimpleRouter_Err(routers[ret.router]) = Compile(ret.arg).err
    /\ \A ctx \in Contexts : ~RouterResult(ret.router, ctx).matched

NoMatchAtAll(r) == \A ctx \in Contexts : ~RouteResult(r, ctx).matched

\* Router.Match on R is decided by the Routes of R other than r: it matches
\* ctx exactly when R has no error and one of them matches after the ones
\* before it returned no-match, and the RouteMatch never names r.
OthersDecide(R, r, ctx) ==
  LET res == RouterResult(R, ctx)
      rs == RoutesOf(R)
  IN  /\ res.matched <=>
           /\ SimpleRouter_Err(routers[R]) = NilErr
           /\ \E i \in DOMAIN rs :
                /\ rs[i] # r
                /\ RouteResult(rs[i], ctx).matched
                /\ \A j \in 1 .. (i - 1) :
                     ~RouteResult(rs[j], ctx).matched /\ ~RouteResult(rs[j], ctx).panic
      /\ res.matched => res.match.Route # r

\* C5 amended: Router.Hear(p) with a pattern that does not compile disables
\* the Route it returns, not the Router: the Route's Err() is that error and
\* the Route matches no event, now and after every later call; the Router's
\* Err() is unchanged by the call and Router.Match still selects, for every
\* event, the earliest of the Router's other Routes that matches it.
C5_RouteDisabled ==
  /\ [](IsInvalidHear =>
          /\ Route_Err(routes[ret.route]) = Compile(ret.arg).err
          /\ \A ctx \in Contexts : OthersDecide(ret.router, ret.route, ctx))
  /\ [](\A r \in DOMAIN routes : Route_Err(routes[r]) # NilErr => NoMatchAtAll(r))
  /\ [][/\ IsInvalidHear' =>
             SimpleRouter_Err(routers'[ret'.router]) = SimpleRouter_Err(routers[ret'.router])
        /\ \A r \in DOMAIN routes :
             Route_Err(routes[r]) # NilErr => Route_Err(routes'[r]) # NilErr]_vars

\* Router.Hear with a bad pattern just returned, and the Router still matches
\* an event through another of its Routes.
C5_Witness ==
  /\ IsInvalidHear
  /\ Len(RoutesOf(ret.router)) >= 2
  /\ \E ctx \in Contexts : RouterResult(ret.router, ctx).matched

\* C6: a Router whose Err() is non-nil, a subrouter made from a Route that
\* carried an error included, and a Route whose Err() is non-nil return
\* no-match for every context, whatever they contain.
C6_FailClosed ==
  /\ \A R \in Routers : SimpleRouter_Err(routers[R]) # NilErr =>
       \A ctx \in Contexts :
         ~RouterResult(R, ctx).matched /\ ~RouterResult(R, ctx).panic
  /\ \A r \in DOMAIN routes : Route_Err(routes[r]) # NilErr =>
       \A ctx \in Contexts :
         ~RouteResult(r, ctx).matched /\ ~RouteResult(r, ctx).panic
  /\ ret.op = "Route.Subrouter" =>
       SimpleRouter_Err(routers[ret.router]) = Route_Err(routes[ret.route])

\* Match was called with an event on a subrouter that inherited a build
\* error from its Route and holds a Route of its own.
C6_Witness ==
  /\ IsMatchCall /\ ~ret.res.matched /\ ret.ctx.hasMsg
  /\ SimpleRouter_Err(routers[ret.router]) # NilErr
  /\ Len(RoutesOf(ret.router)) > 0
  /\ \E r \in DOMAIN routes :
       routes[r].subrouter = ret.router /\ Route_Err(routes[r]) # NilErr

RouteBuilderOps ==
  {"Route.Hear", "Route.Messages", "Route.AddMatcher", "Route.Preprocess",
   "Route.TalkToSelf", "Route.NoTalkToSelf", "Route.Handler", "Route.MessageHandler"}

\* C7: a builder call on a Route that has a build error leaves the Route's
\* matchers, preprocessor, self-talk flag and handler as they were.
C7_BuildersNoOpAfterError ==
  [][\A r \in DOMAIN routes :
       (Route_Err(routes[r]) # NilErr /\ ret'.op \in RouteBuilderOps /\ ret'.route = r) =>
         /\ routes'[r].matchers = routes[r].matchers
         /\ routes'[r].preprocessor = routes[r].preprocessor
         /\ routes'[r].talkToSelf = routes[r].talkToSelf
         /\ routes'[r].handler = routes[r].handler]_vars

\* C8: once a Route's Err() is a non-nil error e, it is e after every later
\* call.
C8_FirstErrorWins ==
  [][\A r \in DOMAIN routes :
       Route_Err(routes[r]) # NilErr => Route_Err(routes'[r]) = Route_Err(routes[r])]_vars

\* C9: once SetBotID(id) was called on a Router, every Route of the Router,
\* those created afterwards included, and every Matcher of those Routes holds
\* id.
C9_FutureRoutesHoldID ==
  \A R \in Routers : routers[R].botUserID # NoID =>
    \A r \in RouteSet(R) : HoldsID(r, routers[R].botUserID)

DefaultFlagOps ==
  {"SimpleRouter.Hear", "SimpleRouter.Handler", "SimpleRouter.MessageHandler",
   "SimpleRouter.Messages", "SimpleRouter.AddMatcher"}

CreatingOps == DefaultFlagOps \cup {"SimpleRouter.TalkToSelf", "SimpleRouter.NoTalkToSelf"}

DefaultOps == {"SimpleRouter.AlwaysTalkToSelf", "SimpleRouter.NeverTalkToSelf"}

FlagsUnchanged == \A r \in DOMAIN routes : routes'[r].talkToSelf = routes[r].talkToSelf

\* C10 as stated: every Route-creating builder call of a Router gives the new
\* Route the Router's default flag of that moment, and AlwaysTalkToSelf and
\* NeverTalkToSelf leave the flag of every existing Route unchanged.
C10_SnapshotAllBuilders ==
  [][/\ ret'.op \in CreatingOps =>
          routes'[ret'.route].talkToSelf = routers[ret'.router].talkToSelf
     /\ ret'.op \in DefaultOps => FlagsUnchanged]_vars

\* C10 amended: Hear, Messages, AddMatcher, Handler and MessageHandler of a
\* Router give the new Route the Router's default flag of that moment;
\* the Router's TalkToSelf and NoTalkToSelf give it true and false whatever
\* the default; AlwaysTalkToSelf and NeverTalkToSelf leave the flag of every
\* existing Route unchanged.
C10_SnapshotDefault ==
  [][/\ ret'.op \in DefaultFlagOps =>
          routes'[ret'.route].talkToSelf = routers[ret'.router].talkToSelf
     /\ ret'.op = "SimpleRouter.TalkToSelf" => routes'[ret'.route].talkToSelf
     /\ ret'.op = "SimpleRouter.NoTalkToSelf" => ~routes'[ret'.route].talkToSelf
     /\ ret'.op \in DefaultOps => FlagsUnchanged]_vars

\* A Route was just created with the default flag set, next to a Route the
\* same Router created before AlwaysTalkToSelf.
C10_Witness ==
  /\ ret.op \in DefaultFlagOps
  /\ routers[ret.router].talkToSelf
  /\ routes[ret.route].talkToSelf
  /\ \E r \in RouteSet(ret.router) : ~routes[r].talkToSelf

\* The index of the first of r's matchers, from i on, that reports no match
\* on the context the matchers before it left; 0 when they all match.
RECURSIVE firstFailing(_, _, _)
firstFailing(r, i, ctx) ==
  IF i > Len(routes[r].matchers) THEN 0
  ELSE LET m == Matcher_Match(routes[r].matchers[i], ctx) IN
       IF m.panic \/ ~m.matched THEN i ELSE firstFailing(r, i + 1, m.ctx)

\* The Route has a handler, no build error and no subrouter, ctx holds an
\* event and the self-talk filter lets it through.
PlainRouteOn(r, ctx) ==
  /\ routes[r].handler # NilHandler
  /\ routes[r].err = NilErr
  /\ routes[r].subrouter = 0
  /\ ctx.hasMsg
  /\ routes[r].talkToSelf \/ routes[r].botUserID # ctx.msg.User

\* The matchers, without the preprocessor, that a Match call evaluated.
MatchersEvaluated(res) == SelectSeq(res.evaluated, LAMBDA e : e[2] # 0)

\* C11: a Route with a handler, no build error and no subrouter, on an event
\* that passes the self-talk filter, matches if and only if every one of its
\* matchers reports a match; the matchers are evaluated in the order they
\* were added, and none after the first failing one is evaluated.
C11_AndShortCircuit ==
  \A r \in DOMAIN routes : \A ctx \in Contexts :
    PlainRouteOn(r, ctx) =>
      LET res == RouteResult(r, ctx)
          start == IF routes[r].preprocessor # "nil"
                     THEN Preprocess(routes[r].preprocessor, ctx) ELSE ctx
          k == firstFailing(r, 1, start)
          last == IF k = 0 THEN Len(routes[r].matchers) ELSE k
      IN  /\ ~res.panic
          /\ res.matched <=> (k = 0)
          /\ MatchersEvaluated(res) = [i \in 1 .. last |-> <<r, i>>]

\* Match was called on a Router whose Route has two matchers; the first one
\* failed on the event and the second one was not evaluated.
C11_Witness ==
  /\ IsMatchCall /\ ~ret.res.matched
  /\ \E r \in RouteSet(ret.router) :
       /\ PlainRouteOn(r, ret.ctx)
       /\ Len(routes[r].matchers) >= 2
       /\ InSeq(<<r, 1>>, ret.res.evaluated)
       /\ ~InSeq(<<r, 2>>, ret.res.evaluated)

\* What R's Routes from index i on evaluate when each of them is handed ctx
\* itself, up to and including the first one that matches.
RECURSIVE evaluatedFrom(_, _, _)
evaluatedFrom(R, i, ctx) ==
  IF i > Len(RoutesOf(R)) THEN <<>>
  ELSE LET own == RouteResult(RoutesOf(R)[i], ctx) IN
       IF own.matched \/ own.panic THEN own.evaluated
       ELSE own.evaluated \o evaluatedFrom(R, i + 1, ctx)

\* C12: when Router.Match returns no-match (build error, or no Route matched)
\* the context it returns is the context it was given, whatever contexts the
\* preprocessors and matchers of the Routes it tried derived; and every Route
\* is evaluated against the Router's input context, not against the context
\* an earlier Route that failed to match left behind.
C12_ContextNotLeaked ==
  (IsMatchCall /\ ~ret.res.panic) =>
    /\ ~ret.res.matched => ret.res.ctx = ret.ctx
    /\ routers[ret.router].err # NilErr => ret.res.evaluated = <<>>
    /\ routers[ret.router].err = NilErr =>
         /\ ret.res.evaluated = evaluatedFrom(ret.router, 1, ret.ctx)
         /\ ret.res.matched <=>
              \E r \in RouteSet(ret.router) : RouteResult(r, ret.ctx).matched
         /\ ret.res.matched =>
              \E r \in RouteSet(ret.router) :
                /\ RouteResult(r, ret.ctx).matched
                /\ ret.res.ctx = RouteResult(r, ret.ctx).ctx

\* Match returned no-match after trying two Routes, the first of which
\* derived a context different from the one Match was given.
C12_Witness ==
  /\ IsMatchCall /\ ~ret.res.matched /\ ~ret.res.panic
  /\ Len(RoutesOf(ret.router)) = 2
  /\ RouteResult(RoutesOf(ret.router)[1], ret.ctx).ctx # ret.ctx
  /\ InSeq(<<RoutesOf(ret.router)[2], 1>>, ret.res.evaluated)

\* C16: a Route that has a subrouter and no handler of its own, no build
\* error, and whose own matchers all pass on an event, returns exactly the
\* subrouter's Match result: it matches whenever the subrouter has a Route
\* that matches the event, and the RouteMatch then carries that nested
\* Route's handler.
C16_HandlerlessDelegation ==
  \A r \in DOMAIN routes : \A ctx \in Contexts :
    ( /\ routes[r].subrouter # 0
      /\ routes[r].handler = NilHandler
      /\ routes[r].err = NilErr
      /\ ctx.hasMsg
      /\ routes[r].talkToSelf \/ routes[r].botUserID # ctx.msg.User
      /\ OwnMatchers(r, ctx).ok ) =>
        LET res == RouteResult(r, ctx)
            sub == RouterResult(routes[r].subrouter, OwnMatchers(r, ctx).ctx)
        IN  /\ res.matched = sub.matched
            /\ res.ctx = sub.ctx
            /\ res.match = sub.match
            /\ res.matched =>
                 /\ res.match.Route \in Subtree(routes[r].subrouter)
                 /\ res.match.Handler = routes[res.match.Route].handler

\* The Route has self-talk disabled and the event in ctx was written by the
\* Route's bot identity.
OwnEventOn(r, ctx) ==
  /\ ctx.hasMsg
  /\ ~routes[r].talkToSelf
  /\ routes[r].botUserID = ctx.msg.User

\* C17: when a Route has self-talk disabled and the event's author equals the
\* Route's bot identity, Route.Match returns no-match and the context it was
\* given without invoking the Route's preprocessor, any of its matchers, or
\* its subrouter.
C17_SelfTalkFirst ==
  \A r \in DOMAIN routes : \A ctx \in Contexts :
    OwnEventOn(r, ctx) =>
      LET res == RouteResult(r, ctx) IN
        /\ ~res.matched /\ ~res.panic
        /\ res.ctx = ctx
        /\ res.match = EmptyMatch
        /\ res.evaluated = <<>>
        /\ res.visited = <<r>>

\* Match was called with the bot's own event on a Router holding a Route
\* without build error, with a handler and a preprocessor, that filters it.
C17_Witness ==
  /\ IsMatchCall
  /\ \E r \in RouteSet(ret.router) :
       /\ OwnEventOn(r, ret.ctx)
       /\ routes[r].err = NilErr
       /\ routes[r].handler # NilHandler
       /\ routes[r].preprocessor # "nil"
       /\ InSeq(r, ret.res.visited)

\* The Route was given matchers by Hear and Messages only.
BuiltinMatchersOnly(r) ==
  \A i \in DOMAIN routes[r].matchers :
    routes[r].matchers[i].kind \in {"RegexpMatcher", "TypesMatcher"}

\* C18: for every context handed to Router.Match, including a context in
\* which no inbound event was stored, Match on a Router whose Routes use
\* pattern (Hear) or type (Messages) matchers completes and returns a boolean
\* plus a context, with no crash or error outcome.
C18_DispatchNeverFails ==
  (IsMatchCall /\ \A r \in Subtree(ret.router) : BuiltinMatchersOnly(r)) =>
    ~ret.res.panic

\* A RouteMatch that an earlier, successful Match call filled.
StaleMatch == [Route |-> 1, Handler |-> CHOOSE h \in HandlerFuncs : TRUE]

StaleWork == [EmptyWork EXCEPT !.match = StaleMatch]

\* What Match must leave behind when handed the RouteMatch `given`: on true,
\* a non-nil Route without subrouter, entered last, with that Route's own
\* non-nil handler, written once and by that Route; on false, `given`.
WrittenOnSuccessOnly(res, given) ==
  ~res.panic =>
    IF res.matched
      THEN /\ res.match.Route \in DOMAIN routes
           /\ res.match.Handler # NilHandler
           /\ res.match.Handler = routes[res.match.Route].handler
           /\ res.writes = <<res.match.Route>>
           /\ res.visited[Len(res.visited)] = res.match.Route
           /\ routes[res.match.Route].subrouter = 0
      ELSE /\ res.match = given
           /\ res.writes = <<>>

\* C19: whenever Router.Match or Route.Match returns true, the RouteMatch
\* holds a non-nil Route and a non-nil Handler that is that Route's own
\* handler, written exactly once by the innermost matching Route; whenever
\* Match returns false, the RouteMatch passed in is left unmodified, at every
\* nesting depth of subrouters.
C19_RouteMatchOnSuccessOnly ==
  /\ IsMatchCall => WrittenOnSuccessOnly(ret.res, EmptyMatch)
  /\ \A R \in Routers : \A ctx \in Contexts :
       WrittenOnSuccessOnly(SimpleRouter_Match(R, ctx, StaleWork), StaleMatch)
  /\ \A r \in DOMAIN routes : \A ctx \in Contexts :
       /\ WrittenOnSuccessOnly(Route_Match(r, ctx, StaleWork), StaleMatch)
       /\ WrittenOnSuccessOnly(RouteResult(r, ctx), EmptyMatch)

\* Match returned true through a subrouter: the RouteMatch names a Route
\* nested below the Router, and only that Route wrote it.
C19_Witness ==
  /\ IsMatchCall /\ ret.res.matched
  /\ ret.res.match.Route \notin RouteSet(ret.router)
  /\ ret.res.writes = <<ret.res.match.Route>>

\* The pattern matchers of r that have no compiled expression.
NilRegexpMatchers(r) ==
  {i \in DOMAIN routes[r].matchers :
     /\ routes[r].matchers[i].kind = "RegexpMatcher"
     /\ routes[r].matchers[i].regex = NilRe}

\* C20: Hear with an invalid pattern still appends a pattern matcher whose
\* expression is absent, but in every reachable state the Route that owns
\* such a matcher has a non-nil build error, so Route.Match returns at the
\* build-error check and no Match call ever evaluates that matcher.
C20_NilRegexpNeverEvaluated ==
  /\ (ret.op \in {"SimpleRouter.Hear", "Route.Hear"} /\ Compile(ret.arg).err # NilErr) =>
       Len(routes[ret.route].matchers) \in NilRegexpMatchers(ret.route)
  /\ \A r \in DOMAIN routes : NilRegexpMatchers(r) # {} =>
       /\ routes[r].err # NilErr
       /\ \A ctx \in Contexts :
            LET res == RouteResult(r, ctx) IN
              ~res.matched /\ ~res.panic /\ res.evaluated = <<>>
  /\ IsMatchCall =>
       \A k \in DOMAIN ret.res.evaluated :
         ret.res.evaluated[k][2] \notin NilRegexpMatchers(ret.res.evaluated[k][1])

\* Match was called with an event on a Router holding a Route that has a
\* handler and a pattern matcher without compiled expression.
C20_Witness ==
  /\ IsMatchCall /\ ret.ctx.hasMsg
  /\ \E r \in RouteSet(ret.router) :
       /\ NilRegexpMatchers(r) # {}
       /\ routes[r].handler # NilHandler
       /\ InSeq(r, ret.res.visited)

\* Run has started the dispatch goroutine.
Dispatching == run.loop # "none"

\* C13: in Bot.Run the bot identity is broadcast strictly before dispatch:
\* setBotID is called exactly once per Run, on the first connected event
\* (never before it, never again after it), and no Match call and no handler
\* invocation happens before it; message events received before the
\* connected event are discarded without being matched.
C13_IdentityBeforeDispatch ==
  /\ [](/\ run.setBotIDCalls <= 1
        /\ Dispatching <=> run.setBotIDCalls = 1
        /\ (IsMatchCall \/ run.loop = "handler") =>
             /\ run.setBotIDCalls = 1
             /\ run.botUserID \in BotIDs
             /\ routers[1].botUserID = run.botUserID
             /\ \A r \in RouteSet(1) : routes[r].botUserID = run.botUserID
        /\ run.pc = "auth" => (~IsMatchCall /\ run.setBotIDCalls = 0))
  /\ [][run.setBotIDCalls' # run.setBotIDCalls =>
          (run.pc = "auth" /\ run.setBotIDCalls = 0 /\ run'.msg = "ConnectedEvent")]_vars
  /\ [][(run.pc = "auth" /\ run'.msg # "ConnectedEvent") =>
          UNCHANGED <<routers, routes, ret>>]_vars

\* The dispatch goroutine called Match for a message event after the
\* authentication loop had dropped a message event.
C13_Witness ==
  /\ IsMatchCall /\ run.msg = "MessageEvent"
  /\ run.ignored
  /\ run.setBotIDCalls = 1
  /\ RouteSet(1) # {}

\* C14: a slow handler does not stall matching of subsequent events: while
\* the handler selected for one event has not yet returned, the dispatch
\* goroutine can still receive and match the next inbound message event.
C14_SlowHandlerDoesNotStall ==
  run.loop = "handler" => ENABLED (\E e \in MessageEvents : DispatchEvent(e))

====
